---- MODULE Spec2Model ----
(***************************************************************************)
(* OTP login lifecycle of the authentication service                       *)
(* (OtpAuthService: requestOtp, verifyOtp, getOtpStatus) over the durable  *)
(* store (otp_requests, users), the Redis issuance counter and the clock.  *)
(* The processes are callers of the service's methods: the route handlers   *)
(* that stand before them (otpRateLimit, validateBody) are not part of the  *)
(* behaviours, and createRateLimiter is modelled on its own.                *)
(* Every answer to an await of the service is one step of the calling       *)
(* process; a value of the clock that the handler reads before an await is   *)
(* kept in the process until the answer. Time is counted in minutes.         *)
(***************************************************************************)
EXTENDS Integers, Sequences, FiniteSets, TLC

\* ------------------------------------------------------------------------
\* Program constants (OtpAuthService private readonly fields)
\* ------------------------------------------------------------------------
OTP_EXPIRY_MINUTES == 10
MAX_OTP_ATTEMPTS == 5
RATE_LIMIT_WINDOW_MINUTES == 15
MAX_REQUESTS_PER_WINDOW == 3

\* generateOtp: randomInt(OtpMin, OtpMax)
OtpMin == 100000
OtpMax == 999999

\* ------------------------------------------------------------------------
\* Bounds of the model
\* ------------------------------------------------------------------------
MaxRecords == 3        \* OTP records created in one behaviour of Spec
MaxRecordsRate == 4    \* OTP records created in one behaviour of SpecRate
MaxRecordsConc == 2    \* OTP records created in one behaviour of SpecConc
MaxRecordsCrash == 1   \* OTP records created in one behaviour of SpecCrash
MaxRecordsFault == 2   \* OTP records created in one behaviour of SpecFault
MaxRecordsRace == 5    \* OTP records created in one behaviour of SpecRace
MaxRecordsIdentity == 1  \* OTP records created in one behaviour of SpecIdentity
ClockStep == 5         \* minutes by which one Tick advances the clock
MaxTime == 15          \* the clock stops here
MaxTimeRate == 20      \* the clock stops here in SpecRate and SpecRace
MaxRecordsStatus == 2  \* OTP records created in one behaviour of SpecStatus
MaxTimeStatus == 10    \* the clock stops here in SpecStatus
LimiterMaxRequests == 2  \* maxRequests of the route-level limiter (env.RATE_LIMIT_MAX)
MaxTimeSpec == 10      \* the clock stops here in Spec
ClockStepRace == 10    \* minutes by which the clock advances in SpecRace

\* Processes (request handlers that may overlap) of each specification
SeqProcs == {1}
ConcProcs == {1, 2}
AllProcs == SeqProcs \cup ConcProcs

\* Raw requester inputs; two of them differ only in case and whitespace
RawEmails == { <<"a", "@", "x">>, <<"A", "@", "X", " ">> }

\* The way each overlapping caller writes the address in SpecNorm
VariantOf == << <<"A", "@", "X", " ">>, <<"a", "@", "x">> >>

\* Two requesters, for the operations of one next to the data of the other
TwoRequesters == { <<"a", "@", "x">>, <<"b", "@", "x">> }

\* The draws of the secure random source that the model explores
SampledDraws == {100000, 999998}
SampledDrawsOne == {100000}

Nil == -1

\* The value that stands for a password hash (hashPassword's result)
HashedPassword == 1

\* The addresses under which AuthService.register is called: it stores
\* data.email as given
RegisterEmails == { <<"a", "@", "x">>, <<"A", "@", "X">> }

\* ------------------------------------------------------------------------
\* Strings: requester normalisation and code formatting
\* ------------------------------------------------------------------------
\* The alphabet of the model's strings is ASCII: the letters that toLowerCase
\* changes are A to Z
UpperChars == <<"A","B","C","D","E","F","G","H","I","J","K","L","M",
                "N","O","P","Q","R","S","T","U","V","W","X","Y","Z">>
LowerChars == <<"a","b","c","d","e","f","g","h","i","j","k","l","m",
                "n","o","p","q","r","s","t","u","v","w","x","y","z">>
\* The characters that String.prototype.trim strips: WhiteSpace and
\* LineTerminator of ECMAScript. A string is a sequence of characters; a
\* character that has no escape in TLA+ is written as its code point.
WhiteSpace == {"\t", "\n", "U+000B", "\f", "\r", " ", "U+00A0", "U+1680",
               "U+2000", "U+2001", "U+2002", "U+2003", "U+2004", "U+2005",
               "U+2006", "U+2007", "U+2008", "U+2009", "U+200A", "U+2028",
               "U+2029", "U+202F", "U+205F", "U+3000", "U+FEFF"}

toLowerCaseChar(c) ==
  IF \E i \in 1..Len(UpperChars) : UpperChars[i] = c
  THEN LowerChars[CHOOSE i \in 1..Len(UpperChars) : UpperChars[i] = c]
  ELSE c

toLowerCase(s) == [i \in 1..Len(s) |-> toLowerCaseChar(s[i])]

trim(s) ==
  LET keep == {i \in 1..Len(s) : s[i] \notin WhiteSpace}
  IN IF keep = {} THEN <<>>
     ELSE LET lo == CHOOSE i \in keep : \A j \in keep : i <= j
              hi == CHOOSE i \in keep : \A j \in keep : j <= i
          IN SubSeq(s, lo, hi)

\* Mutant: the address is lower-cased but not trimmed
LowerCaseOnly(raw) == toLowerCase(raw)

\* data.email.toLowerCase().trim()
NormalizeEmail(raw) == trim(toLowerCase(raw))

\* A string as utf8mb4_unicode_ci compares it, for the letters of the model's
\* alphabet: without regard to case and to trailing spaces (PAD SPACE)
CollationKey(s) ==
  LET keep == {i \in 1..Len(s) : s[i] # " "}
  IN IF keep = {} THEN <<>>
     ELSE toLowerCase(SubSeq(s, 1, CHOOSE i \in keep : \A j \in keep : j <= i))

\* a = b in a column of a table created with COLLATE utf8mb4_unicode_ci
CollationEqual(a, b) == CollationKey(a) = CollationKey(b)

Digits == <<"0","1","2","3","4","5","6","7","8","9">>

RECURSIVE toString(_)
\* Number.prototype.toString() of a non-negative integer
toString(n) ==
  IF n < 10 THEN <<Digits[n + 1]>>
  ELSE Append(toString(n \div 10), Digits[(n % 10) + 1])

\* crypto.randomInt(min, max): min inclusive, max exclusive
randomInt(min, max) == min..(max - 1)

\* generateOtp(): the codes it can return for the given draws
generateOtp(draws) == { toString(n) : n \in draws \cap randomInt(OtpMin, OtpMax) }

\* isOtpExpired(createdAt, expiryMinutes) read at time t:
\* now > createdAt + expiryMinutes
isOtpExpired(createdAt, expiryMinutes, t) == t > createdAt + expiryMinutes

\* validateOtpFormat(code): /^\d{6}$/
validateOtpFormat(code) ==
  Len(code) = 6 /\ \A i \in 1..Len(code) : \E d \in 1..Len(Digits) : code[i] = Digits[d]

\* Integers around both ends of the documented range of codes
EdgeDraws == {OtpMin - 1, OtpMin, OtpMin + 1, OtpMax - 1, OtpMax, OtpMax + 1}

\* A well-formed code that generateOtp never returns for the sampled draws
WrongCode == <<"0","0","0","0","0","0">>

\* ------------------------------------------------------------------------
\* State
\* ------------------------------------------------------------------------
VARIABLES
  now,            \* the clock (Date.now(), Redis time), in minutes
  otpRequests,    \* table otp_requests: a set of rows
  nextOtpId,      \* AUTO_INCREMENT of otp_requests.id
  users,          \* table users: a set of rows
  nextUserId,     \* AUTO_INCREMENT of users.id
  redis,          \* Redis: key -> [val, exp]; exp = Nil when the key has no TTL
  proc,           \* each handler: its position and its local variables
  successCount,   \* history: record id -> verifyOtp calls that returned success on it
  incrementsDone, \* history: record id -> attempts updates written to it
  otpWindow,      \* history: requester -> [start, count] of the issuance window
  consumed,       \* history: <<requester, code>> -> successful verifications
                  \*   since an OTP was last issued to the requester
  undelivered     \* history: ids created by calls that ended in a delivery failure

vars == <<now, otpRequests, nextOtpId, users, nextUserId, redis, proc,
          successCount, incrementsDone, otpWindow, consumed, undelivered>>

store == <<otpRequests, nextOtpId, users, nextUserId>>
history == <<successCount, incrementsDone, otpWindow, consumed, undelivered>>

\* findFirst / findUnique / redis.get returning null
NoOtp == [id |-> Nil, email |-> <<>>, code |-> <<>>, expiresAt |-> Nil,
          attempts |-> Nil, used |-> FALSE, createdAt |-> Nil]

\* response: the value a successful requestOtp call returns
NoResponse == [email |-> <<>>, expires_in |-> Nil]

\* logged: the call wrote the error it caught to console.error
\* expires_at: the expiry that verifyOtp returns; token_exp: the exp claim of
\* the token it returns
NoResult == [kind |-> "none", remaining |-> Nil, userId |-> Nil, otpId |-> Nil,
             response |-> NoResponse, logged |-> FALSE,
             expires_at |-> Nil, token_exp |-> Nil]

NoStatus == [has_active_otp |-> FALSE, expires_in_seconds |-> Nil,
             attempts_used |-> Nil, can_request_new |-> FALSE,
             next_request_available_in |-> Nil]

\* guesses: history of the caller, the record (target) against which its last
\* calls were consecutive wrong-code verifyOtp calls, how many (count), and the
\* attempts of that record when the last of them was made
NoGuesses == [target |-> Nil, count |-> 0, attempts |-> Nil]

\* clock: the value of the clock that the handler read (new Date(), Date.now())
\* before the await it is at
IdleProc == [pc |-> "idle", op |-> "none", email |-> <<>>, code |-> <<>>,
             otpRequest |-> NoOtp, user |-> Nil, createdId |-> Nil, clock |-> Nil,
             result |-> NoResult, status |-> NoStatus, guesses |-> NoGuesses]

\* A finished call: back to idle, keeping what the call was and what it returned
Return(pr, res) ==
  [IdleProc EXCEPT !.op = pr.op, !.email = pr.email, !.code = pr.code,
                   !.createdId = pr.createdId, !.result = res,
                   !.guesses = IF res.kind = "Success" THEN pr.guesses ELSE NoGuesses]

Outcome(kind) == [NoResult EXCEPT !.kind = kind]

\* History counters: functions with a growing domain
Count(f, k) == IF k \in DOMAIN f THEN f[k] ELSE 0
Bump(f, k, cap) ==
  [x \in DOMAIN f \cup {k} |->
     IF x = k THEN (IF Count(f, k) < cap THEN Count(f, k) + 1 ELSE cap) ELSE f[x]]

Init ==
  /\ now = 0
  /\ otpRequests = {}
  /\ nextOtpId = 1
  /\ users = {}
  /\ nextUserId = 1
  /\ redis = <<>>
  /\ proc = [p \in AllProcs |-> IdleProc]
  /\ successCount = <<>>
  /\ incrementsDone = <<>>
  /\ otpWindow = <<>>
  /\ consumed = <<>>
  /\ undelivered = {}

\* ------------------------------------------------------------------------
\* Redis
\* ------------------------------------------------------------------------
\* Mutant: one issuance counter for every requester
SharedRateLimitKey(email) == <<"otp_rate_limit", <<>>>>

\* `otp_rate_limit:${email}`
rateLimitKey(email) == <<"otp_rate_limit", email>>

\* Mutant: the read misses the key that the increment writes
redisGetMiss(key) == Nil

\* redis.get(key): the stored count, Nil (null) when the key is absent
redisGet(key) == IF key \in DOMAIN redis THEN redis[key].val ELSE Nil

\* redis.ttl(key) in seconds: -2 without key, -1 without expiry
redisTtl(key) ==
  IF key \notin DOMAIN redis THEN -2
  ELSE IF redis[key].exp = Nil THEN -1
  ELSE (redis[key].exp - now) * 60

\* Mutant: the counter is set to 1 instead of being incremented
redisSetOne(key) ==
  [k \in DOMAIN redis \cup {key} |->
     IF k = key
     THEN (IF key \in DOMAIN redis
           THEN [redis[key] EXCEPT !.val = 1]
           ELSE [val |-> 1, exp |-> Nil])
     ELSE redis[k]]

\* redis.incr(key): the store after the increment (a new key has no TTL)
redisIncr(key) ==
  [k \in DOMAIN redis \cup {key} |->
     IF k = key
     THEN (IF key \in DOMAIN redis
           THEN [redis[key] EXCEPT !.val = @ + 1]
           ELSE [val |-> 1, exp |-> Nil])
     ELSE redis[k]]

\* redis.expire(key, seconds): the store after setting the TTL
redisExpire(key, seconds) ==
  [k \in DOMAIN redis |->
     IF k = key THEN [redis[k] EXCEPT !.exp = now + (seconds \div 60)] ELSE redis[k]]

\* Redis drops a key once its expiry time has passed
redisAt(t) ==
  LET live == {k \in DOMAIN redis : redis[k].exp = Nil \/ t <= redis[k].exp}
  IN [k \in live |-> redis[k]]

\* ------------------------------------------------------------------------
\* otp_requests and users: the queries of the service
\* ------------------------------------------------------------------------
\* The where clauses compare email and code as the columns' collation does
\* Mutant: the lookup does not filter on the expiry time
ValidOtpsIgnoringExpiry(email, code, t) ==
  {r \in otpRequests : CollationEqual(r.email, email) /\ CollationEqual(r.code, code) /\ ~r.used}

\* Mutant: the lookup takes the requester's most recent active record
ValidOtpsMostRecent(email, code, t) ==
  LET rows == {r \in otpRequests : CollationEqual(r.email, email) /\ ~r.used /\ r.expiresAt > t}
  IN {r \in rows : \A o \in rows : o.createdAt <= r.createdAt}

\* Mutant: the lookup does not filter on the submitted code
ValidOtpsAnyCode(email, code, t) ==
  {r \in otpRequests : CollationEqual(r.email, email) /\ ~r.used /\ r.expiresAt > t}

\* verifyOtp's findFirst where {email, code, used: false, expiresAt: {gt: now}}
ValidOtps(email, code, t) ==
  {r \in otpRequests : CollationEqual(r.email, email) /\ CollationEqual(r.code, code) /\ ~r.used /\ r.expiresAt > t}

\* getOtpStatus's findFirst where {email, used: false, expiresAt: {gt: now}}
ActiveOtps(email, t) ==
  {r \in otpRequests : CollationEqual(r.email, email) /\ ~r.used /\ r.expiresAt > t}

\* Mutant: the rows are ordered by createdAt asc
Oldest(rows) == {r \in rows : \A s \in rows : r.createdAt <= s.createdAt}

\* orderBy createdAt desc: the rows findFirst may return
MostRecent(rows) == {r \in rows : \A s \in rows : s.createdAt <= r.createdAt}

\* requestOtp's compensating deleteMany where {email, code}: the rows it deletes
CompensatingDelete(email, code) ==
  {r \in otpRequests : CollationEqual(r.email, email) /\ CollationEqual(r.code, code)}

\* Mutant: the cleanup is not scoped to the requester
ExpiredOtpsOfAnyone(email, t) == {r \in otpRequests : r.expiresAt < t}

\* cleanupExpiredOtpRequests' deleteMany where {email, expiresAt: {lt: now}}
ExpiredOtps(email, t) ==
  {r \in otpRequests : CollationEqual(r.email, email) /\ r.expiresAt < t}

\* prisma.otpRequest.update where {id}: the table after the update
UpdateOtp(id, field, value) ==
  {IF r.id = id
   THEN (IF field = "attempts" THEN [r EXCEPT !.attempts = value]
         ELSE [r EXCEPT !.used = value])
   ELSE r : r \in otpRequests}

OtpExists(id) == \E r \in otpRequests : r.id = id

\* prisma.user.findUnique where {email}: the rows it may return
FindUser(email) == {u \in users : CollationEqual(u.email, email)}

\* Mutant: the users table without its unique index on email
NoUniqueIndex(email) == FALSE

\* UNIQUE INDEX users_email_key: a second row with this email is refused
UniqueEmailViolation(email) == \E u \in users : CollationEqual(u.email, email)

\* Mutant: the limit is compared with > instead of >=
RateLimitExceededOffByOne(currentCount) ==
  currentCount # Nil /\ currentCount > MAX_REQUESTS_PER_WINDOW

\* checkRateLimit: currentCount && parseInt(currentCount) >= MAX_REQUESTS_PER_WINDOW
RateLimitExceeded(currentCount) ==
  currentCount # Nil /\ currentCount >= MAX_REQUESTS_PER_WINDOW

\* Mutant: the TTL is set again on every increment
EveryIncrement(current) == TRUE

\* Mutant: the TTL is also set on the second increment
FirstTwoIncrements(current) == current <= 2

\* updateRateLimitCounter: current === 1
FirstIncrement(current) == current = 1

\* The issuance window of the history: it starts with the first successful
\* requestOtp and lasts RATE_LIMIT_WINDOW_MINUTES
WindowLive(email, t) ==
  /\ email \in DOMAIN otpWindow
  /\ t <= otpWindow[email].start + RATE_LIMIT_WINDOW_MINUTES
IssuedInWindow(email, t) == IF WindowLive(email, t) THEN otpWindow[email].count ELSE 0
NoteIssued(email, t) ==
  [e \in DOMAIN otpWindow \cup {email} |->
     IF e = email
     THEN (IF WindowLive(email, t)
           THEN [otpWindow[email] EXCEPT !.count = @ + 1]
           ELSE [start |-> t, count |-> 1])
     ELSE otpWindow[e]]

\* ------------------------------------------------------------------------
\* requestOtp
\* ------------------------------------------------------------------------
InFlightCreates == Cardinality({q \in AllProcs : proc[q].pc = "r_create"})

\* requestOtp called: normalise, then checkRateLimit's redis.get answers; below
\* the limit the handler reads the clock for expiresAt and calls create
RequestOtpCheck(p, raw, maxRecords) ==
  /\ proc[p].pc = "idle"
  /\ LET email == NormalizeEmail(raw)
         currentCount == redisGet(rateLimitKey(email))
     IN /\ RateLimitExceeded(currentCount) \/ nextOtpId + InFlightCreates <= maxRecords
        /\ proc' = [proc EXCEPT ![p] =
             IF RateLimitExceeded(currentCount)
             THEN [IdleProc EXCEPT !.op = "requestOtp", !.email = email, !.pc = "r_ttl"]
             ELSE [IdleProc EXCEPT !.op = "requestOtp", !.email = email,
                                   !.pc = "r_create", !.clock = now]]
  /\ UNCHANGED <<now, store, redis, history>>

\* checkRateLimit: redis.ttl, then throw RateLimitError
RequestOtpRateLimited(p) ==
  /\ proc[p].pc = "r_ttl"
  /\ proc' = [proc EXCEPT ![p] = Return(proc[p], Outcome("RateLimited"))]
  /\ UNCHANGED <<now, store, redis, history>>

\* prisma.otpRequest.create answers: the row holds the code that generateOtp
\* drew and the expiresAt computed before the call; created_at is the time of
\* the insert
RequestOtpCreate(p, draws) ==
  /\ proc[p].pc = "r_create"
  /\ \E otpCode \in generateOtp(draws) :
       /\ otpRequests' = otpRequests \cup
            {[id |-> nextOtpId, email |-> proc[p].email, code |-> otpCode,
              expiresAt |-> proc[p].clock + OTP_EXPIRY_MINUTES, attempts |-> 0,
              used |-> FALSE, createdAt |-> now]}
       /\ proc' = [proc EXCEPT ![p].pc = "r_send", ![p].code = otpCode,
                               ![p].createdId = nextOtpId]
  /\ nextOtpId' = nextOtpId + 1
  /\ consumed' = [k \in {x \in DOMAIN consumed : x[1] # proc[p].email} |-> consumed[k]]
  /\ UNCHANGED <<now, users, nextUserId, redis,
                 successCount, incrementsDone, otpWindow, undelivered>>

\* sendOtpEmail resolves
RequestOtpSent(p) ==
  /\ proc[p].pc = "r_send"
  /\ proc' = [proc EXCEPT ![p].pc = "r_incr"]
  /\ UNCHANGED <<now, store, redis, history>>

\* sendOtpEmail throws: the catch block writes the error to console.error and
\* calls deleteMany
RequestOtpSendFailed(p) ==
  /\ proc[p].pc = "r_send"
  /\ proc' = [proc EXCEPT ![p].pc = "r_delete", ![p].result.logged = TRUE]
  /\ UNCHANGED <<now, store, redis, history>>

\* catch block, after console.error: deleteMany where {email, code} answers,
\* then throw 'Failed to send OTP email'
RequestOtpCompensate(p) ==
  /\ proc[p].pc = "r_delete"
  /\ otpRequests' = otpRequests \ CompensatingDelete(proc[p].email, proc[p].code)
  /\ proc' = [proc EXCEPT ![p] =
       Return(proc[p], [Outcome("DeliveryFailed") EXCEPT !.logged = TRUE])]
  /\ undelivered' = undelivered \cup {proc[p].createdId}
  /\ UNCHANGED <<now, nextOtpId, users, nextUserId, redis,
                 successCount, incrementsDone, otpWindow, consumed>>

\* catch block, after console.error: deleteMany itself rejects; the rejection
\* leaves the catch block in place of 'Failed to send OTP email' and the record
\* stays
RequestOtpCompensateFailed(p) ==
  /\ proc[p].pc = "r_delete"
  /\ proc' = [proc EXCEPT ![p] =
       Return(proc[p], [Outcome("StoreError") EXCEPT !.otpId = proc[p].createdId,
                                                     !.logged = TRUE])]
  /\ UNCHANGED <<now, store, redis, history>>

\* Mutant: the generated code is returned with the response
RequestOtpResponseWithCode(email, otpCode) ==
  [email |-> email, expires_in |-> OTP_EXPIRY_MINUTES * 60, code |-> otpCode]

\* return {email, expires_in: OTP_EXPIRY_MINUTES * 60}, with email and otpCode
\* in scope
RequestOtpResponse(email, otpCode) ==
  [email |-> email, expires_in |-> OTP_EXPIRY_MINUTES * 60]

RequestOtpSuccess(pr) ==
  Return(pr, [Outcome("Success") EXCEPT !.response = RequestOtpResponse(pr.email, pr.code)])

\* updateRateLimitCounter: redis.incr; the call returns unless this was the
\* first increment
RequestOtpIncr(p) ==
  /\ proc[p].pc = "r_incr"
  /\ LET key == rateLimitKey(proc[p].email)
         current == redisIncr(key)[key].val
     IN /\ redis' = redisIncr(key)
        /\ IF FirstIncrement(current)
           THEN /\ proc' = [proc EXCEPT ![p].pc = "r_expire"]
                /\ UNCHANGED otpWindow
           ELSE /\ proc' = [proc EXCEPT ![p] = RequestOtpSuccess(proc[p])]
                /\ otpWindow' = NoteIssued(proc[p].email, now)
  /\ UNCHANGED <<now, store, successCount, incrementsDone, consumed, undelivered>>

\* updateRateLimitCounter: redis.expire on the first increment
RequestOtpExpire(p) ==
  /\ proc[p].pc = "r_expire"
  /\ redis' = redisExpire(rateLimitKey(proc[p].email), RATE_LIMIT_WINDOW_MINUTES * 60)
  /\ proc' = [proc EXCEPT ![p] = RequestOtpSuccess(proc[p])]
  /\ otpWindow' = NoteIssued(proc[p].email, now)
  /\ UNCHANGED <<now, store, successCount, incrementsDone, consumed, undelivered>>

\* ------------------------------------------------------------------------
\* verifyOtp
\* ------------------------------------------------------------------------
\* History: the caller's guesses after one more wrong-code call, counted against
\* the requester's only active record
NoteGuess(guesses, email, t) ==
  IF Cardinality(ActiveOtps(email, t)) # 1 THEN NoGuesses
  ELSE LET target == CHOOSE r \in ActiveOtps(email, t) : TRUE
       IN IF guesses.target = target.id
          THEN [guesses EXCEPT !.count = IF @ < MAX_OTP_ATTEMPTS THEN @ + 1 ELSE @,
                               !.attempts = target.attempts]
          ELSE [target |-> target.id, count |-> 1, attempts |-> target.attempts]

\* Mutant: the blocked check compares with > instead of >=
IsBlockedAbove(otpRequest) == otpRequest.attempts > MAX_OTP_ATTEMPTS

\* otpRequest.attempts >= MAX_OTP_ATTEMPTS
IsBlocked(otpRequest) == otpRequest.attempts >= MAX_OTP_ATTEMPTS

\* data of the attempts update: otpRequest.attempts + 1, from the row as read
IncrementedAttempts(otpRequest) == otpRequest.attempts + 1

\* verifyOtp called: normalise, read the clock for the filter on expiresAt, call
\* findFirst
VerifyOtpCall(p, raw, code) ==
  /\ proc[p].pc = "idle"
  /\ proc' = [proc EXCEPT ![p] =
       [IdleProc EXCEPT !.op = "verifyOtp", !.email = NormalizeEmail(raw),
                        !.code = code, !.pc = "v_find", !.clock = now,
                        !.guesses = proc[p].guesses]]
  /\ UNCHANGED <<now, store, redis, history>>

\* findFirst answers: null check and blocked check
VerifyOtpFind(p) ==
  /\ proc[p].pc = "v_find"
  /\ LET email == proc[p].email
         code == proc[p].code
         date == proc[p].clock
         call == [proc[p] EXCEPT !.guesses = NoGuesses]
     IN IF ValidOtps(email, code, date) = {}
        THEN proc' = [proc EXCEPT ![p] =
               [Return(call, Outcome("InvalidOrExpired")) EXCEPT
                  !.guesses = NoteGuess(proc[p].guesses, email, date)]]
        ELSE \E otpRequest \in ValidOtps(email, code, date) :
               proc' = [proc EXCEPT ![p] =
                 IF IsBlocked(otpRequest)
                 THEN Return(call, [Outcome("Blocked") EXCEPT !.otpId = otpRequest.id])
                 ELSE [proc[p] EXCEPT !.pc = "v_incr", !.otpRequest = otpRequest,
                                      !.clock = Nil]]
  /\ UNCHANGED <<now, store, redis, history>>

\* update attempts, then the code comparison
VerifyOtpIncrement(p) ==
  /\ proc[p].pc = "v_incr"
  /\ LET otpRequest == proc[p].otpRequest
         remainingAttempts == MAX_OTP_ATTEMPTS - IncrementedAttempts(otpRequest)
     IN IF ~OtpExists(otpRequest.id)
        THEN /\ proc' = [proc EXCEPT ![p] =
                  Return(proc[p], [Outcome("StoreError") EXCEPT !.otpId = otpRequest.id])]
             /\ UNCHANGED <<otpRequests, incrementsDone>>
        ELSE /\ otpRequests' =
                  UpdateOtp(otpRequest.id, "attempts", IncrementedAttempts(otpRequest))
             /\ incrementsDone' = Bump(incrementsDone, otpRequest.id, MAX_OTP_ATTEMPTS + 1)
             /\ proc' = [proc EXCEPT ![p] =
                  IF otpRequest.code # proc[p].code
                  THEN (IF remainingAttempts <= 0
                        THEN Return(proc[p],
                               [Outcome("Blocked") EXCEPT !.otpId = otpRequest.id])
                        ELSE Return(proc[p],
                               [Outcome("InvalidOrExpired") EXCEPT
                                  !.otpId = otpRequest.id,
                                  !.remaining = remainingAttempts]))
                  ELSE [proc[p] EXCEPT !.pc = "v_used"]]
  /\ UNCHANGED <<now, nextOtpId, users, nextUserId, redis,
                 successCount, otpWindow, consumed, undelivered>>

\* update used: true
VerifyOtpMarkUsed(p) ==
  /\ proc[p].pc = "v_used"
  /\ IF ~OtpExists(proc[p].otpRequest.id)
     THEN /\ proc' = [proc EXCEPT ![p] =
               Return(proc[p], [Outcome("StoreError") EXCEPT
                                  !.otpId = proc[p].otpRequest.id])]
          /\ UNCHANGED otpRequests
     ELSE /\ otpRequests' = UpdateOtp(proc[p].otpRequest.id, "used", TRUE)
          /\ proc' = [proc EXCEPT ![p].pc = "v_findUser"]
  /\ UNCHANGED <<now, nextOtpId, users, nextUserId, redis, history>>

\* prisma.user.findUnique where {email} answers; with a user at hand the handler
\* generates the token, computes expires_at and calls the cleanup, reading the
\* clock for each
VerifyOtpFindUser(p) ==
  /\ proc[p].pc = "v_findUser"
  /\ IF FindUser(proc[p].email) = {}
     THEN proc' = [proc EXCEPT ![p].pc = "v_createUser"]
     ELSE \E user \in FindUser(proc[p].email) :
            proc' = [proc EXCEPT ![p].pc = "v_cleanup", ![p].user = user.id,
                                 ![p].clock = now]
  /\ UNCHANGED <<now, store, redis, history>>

\* Mutant: createdVia is left to the column's default
DefaultUser(id, email) ==
  [id |-> id, email |-> email, createdVia |-> "password", password |-> Nil]

\* data of verifyOtp's prisma.user.create: createdVia 'otp', no password
OtpUser(id, email) ==
  [id |-> id, email |-> email, createdVia |-> "otp", password |-> Nil]

\* prisma.user.create with createdVia 'otp' answers; with the user at hand the
\* handler generates the token, computes expires_at and calls the cleanup,
\* reading the clock for each
VerifyOtpCreateUser(p) ==
  /\ proc[p].pc = "v_createUser"
  /\ IF UniqueEmailViolation(proc[p].email)
     THEN /\ proc' = [proc EXCEPT ![p] =
               Return(proc[p], [Outcome("StoreError") EXCEPT
                                  !.otpId = proc[p].otpRequest.id])]
          /\ UNCHANGED <<users, nextUserId>>
     ELSE /\ users' = users \cup {OtpUser(nextUserId, proc[p].email)}
          /\ nextUserId' = nextUserId + 1
          /\ proc' = [proc EXCEPT ![p].pc = "v_cleanup", ![p].user = nextUserId,
                                  ![p].clock = now]
  /\ UNCHANGED <<now, otpRequests, nextOtpId, redis, history>>

\* env.JWT_EXPIRES_IN in minutes: the default '24h'
DefaultJwtExpiresIn == 1440

\* env.JWT_EXPIRES_IN in minutes: the default '24h' and the '7d' of the
\* documented configuration
JwtExpiresIn == {DefaultJwtExpiresIn, 7 * 24 * 60}

\* jwt.sign(payload, secret, {expiresIn}): the exp claim of a token issued at iat
TokenExp(iat, expiresIn) == iat + expiresIn

\* new Date(Date.now() + 24 * 60 * 60 * 1000), in minutes
ExpiresAt(t) == t + 24 * 60

\* cleanupExpiredOtpRequests' deleteMany answers: return {user, token,
\* expires_at}, the token and expires_at being those computed before the call,
\* in a process configured with one of the given token lifetimes
VerifyOtpCleanupWith(p, lifetimes) ==
  /\ proc[p].pc = "v_cleanup"
  /\ otpRequests' = otpRequests \ ExpiredOtps(proc[p].email, proc[p].clock)
  /\ \E expiresIn \in lifetimes :
       proc' = [proc EXCEPT ![p] =
         Return(proc[p], [Outcome("Success") EXCEPT
                            !.userId = proc[p].user, !.otpId = proc[p].otpRequest.id,
                            !.token_exp = TokenExp(proc[p].clock, expiresIn),
                            !.expires_at = ExpiresAt(proc[p].clock)])]
  /\ successCount' = Bump(successCount, proc[p].otpRequest.id, Cardinality(AllProcs))
  /\ consumed' = Bump(consumed, <<proc[p].email, proc[p].code>>, Cardinality(AllProcs))
  /\ UNCHANGED <<now, nextOtpId, users, nextUserId, redis,
                 incrementsDone, otpWindow, undelivered>>

VerifyOtpCleanup(p) == VerifyOtpCleanupWith(p, {DefaultJwtExpiresIn})

\* cleanupExpiredOtpRequests' deleteMany rejects: the rejection leaves verifyOtp
\* in place of {user, token, expires_at}
VerifyOtpCleanupFailed(p) ==
  /\ proc[p].pc = "v_cleanup"
  /\ proc' = [proc EXCEPT ![p] =
       Return(proc[p], [Outcome("StoreError") EXCEPT !.otpId = proc[p].otpRequest.id])]
  /\ UNCHANGED <<now, store, redis, history>>

\* ------------------------------------------------------------------------
\* getOtpStatus
\* ------------------------------------------------------------------------
Max(a, b) == IF a >= b THEN a ELSE b

\* Math.max(0, Math.floor((expiresAt - now) / 1000)), minutes to seconds
ExpiresInSeconds(expiresAt, t) == Max(0, (expiresAt - t) * 60)

\* getRateLimitStatus: !currentCount || parseInt(currentCount) < MAX_REQUESTS_PER_WINDOW
CanRequest(currentCount) ==
  currentCount = Nil \/ currentCount < MAX_REQUESTS_PER_WINDOW

ReturnStatus(pr, st) == [Return(pr, Outcome("Success")) EXCEPT !.status = st]

\* getOtpStatus called: normalise, read the clock for the filter on expiresAt,
\* call findFirst
GetOtpStatusCall(p, raw) ==
  /\ proc[p].pc = "idle"
  /\ proc' = [proc EXCEPT ![p] =
       [IdleProc EXCEPT !.op = "getOtpStatus", !.email = NormalizeEmail(raw),
                        !.pc = "s_find", !.clock = now]]
  /\ UNCHANGED <<now, store, redis, history>>

\* findFirst ordered by createdAt desc answers; the remaining time is taken from
\* the clock as it is then
GetOtpStatusFind(p) ==
  /\ proc[p].pc = "s_find"
  /\ LET email == proc[p].email
         call == [proc[p] EXCEPT !.pc = "s_rate", !.clock = Nil]
     IN IF ActiveOtps(email, proc[p].clock) = {}
        THEN proc' = [proc EXCEPT ![p] = call]
        ELSE \E activeOtp \in MostRecent(ActiveOtps(email, proc[p].clock)) :
               proc' = [proc EXCEPT ![p] =
                 [call EXCEPT !.otpRequest = activeOtp,
                    !.status = [NoStatus EXCEPT
                       !.has_active_otp = TRUE,
                       !.expires_in_seconds = ExpiresInSeconds(activeOtp.expiresAt, now),
                       !.attempts_used = activeOtp.attempts]]]
  /\ UNCHANGED <<now, store, redis, history>>

\* Mutant: the status query counts as a request
GetOtpStatusRateCounting(p) ==
  /\ proc[p].pc = "s_rate"
  /\ redis' = redisIncr(rateLimitKey(proc[p].email))
  /\ IF CanRequest(redisGet(rateLimitKey(proc[p].email)))
     THEN proc' = [proc EXCEPT ![p] =
            ReturnStatus(proc[p], [proc[p].status EXCEPT !.can_request_new = TRUE])]
     ELSE proc' = [proc EXCEPT ![p].pc = "s_ttl"]
  /\ UNCHANGED <<now, store, history>>

\* getRateLimitStatus: redis.get
GetOtpStatusRate(p) ==
  /\ proc[p].pc = "s_rate"
  /\ IF CanRequest(redisGet(rateLimitKey(proc[p].email)))
     THEN proc' = [proc EXCEPT ![p] =
            ReturnStatus(proc[p], [proc[p].status EXCEPT !.can_request_new = TRUE])]
     ELSE proc' = [proc EXCEPT ![p].pc = "s_ttl"]
  /\ UNCHANGED <<now, store, redis, history>>

\* getRateLimitStatus: redis.ttl
GetOtpStatusTtl(p) ==
  /\ proc[p].pc = "s_ttl"
  /\ LET ttl == redisTtl(rateLimitKey(proc[p].email))
     IN proc' = [proc EXCEPT ![p] =
          ReturnStatus(proc[p],
            [proc[p].status EXCEPT
               !.can_request_new = FALSE,
               !.next_request_available_in = IF ttl > 0 THEN ttl ELSE Nil])]
  /\ UNCHANGED <<now, store, redis, history>>

\* ------------------------------------------------------------------------
\* createRateLimiter: the route-level limiter, keyed by the client address
\* ------------------------------------------------------------------------
\* windowMs of authRateLimit and globalRateLimit: 15 * 60 * 1000
LimiterWindowMs == 900000

\* req.ip, as a string of characters
ClientIps == { <<"i", "p">> }

\* `rate_limit:${keyGenerator(req)}`
limiterKey(ip) == <<"rate_limit", ip>>

\* Math.ceil(windowMs / 1000)
CeilSeconds(windowMs) == (windowMs + 999) \div 1000

\* redis.multi().incr(key).expire(key, seconds).exec(): the store after it
redisMultiIncrExpire(key, seconds) ==
  [k \in DOMAIN redis \cup {key} |->
     IF k = key
     THEN [val |-> (IF key \in DOMAIN redis THEN redis[key].val ELSE 0) + 1,
           exp |-> now + (seconds \div 60)]
     ELSE redis[k]]

\* middleware called: redis.get answers; next(RateLimitError) when the count has
\* reached maxRequests
RateLimiterGet(p, ip) ==
  /\ proc[p].pc = "idle"
  /\ LET call == [IdleProc EXCEPT !.op = "rateLimiter", !.email = ip]
         currentCount == redisGet(limiterKey(ip))
     IN proc' = [proc EXCEPT ![p] =
          IF currentCount # Nil /\ currentCount >= LimiterMaxRequests
          THEN Return(call, Outcome("RateLimited"))
          ELSE [call EXCEPT !.pc = "m_multi"]]
  /\ UNCHANGED <<now, store, redis, history>>

\* Mutant: the error of redis.get is passed on to the error handler
RateLimiterGetFailedClosed(p, ip) ==
  /\ proc[p].pc = "idle"
  /\ proc' = [proc EXCEPT ![p] =
       Return([IdleProc EXCEPT !.op = "rateLimiter", !.email = ip],
              Outcome("StoreError"))]
  /\ UNCHANGED <<now, store, redis, history>>

\* middleware called: redis.get rejects; catch: console.error, next()
RateLimiterGetFailed(p, ip) ==
  /\ proc[p].pc = "idle"
  /\ proc' = [proc EXCEPT ![p] =
       Return([IdleProc EXCEPT !.op = "rateLimiter", !.email = ip],
              [Outcome("Passed") EXCEPT !.logged = TRUE])]
  /\ UNCHANGED <<now, store, redis, history>>

\* multi().incr().expire().exec() answers; next()
RateLimiterMulti(p) ==
  /\ proc[p].pc = "m_multi"
  /\ redis' = redisMultiIncrExpire(limiterKey(proc[p].email), CeilSeconds(LimiterWindowMs))
  /\ proc' = [proc EXCEPT ![p] = Return(proc[p], Outcome("Passed"))]
  /\ UNCHANGED <<now, store, history>>

\* exec() rejects, with the transaction applied or not; catch: console.error,
\* next()
RateLimiterMultiFailed(p) ==
  /\ proc[p].pc = "m_multi"
  /\ \/ UNCHANGED redis
     \/ redis' = redisMultiIncrExpire(limiterKey(proc[p].email),
                                      CeilSeconds(LimiterWindowMs))
  /\ proc' = [proc EXCEPT ![p] =
       Return(proc[p], [Outcome("Passed") EXCEPT !.logged = TRUE])]
  /\ UNCHANGED <<now, store, history>>

\* ------------------------------------------------------------------------
\* AuthService.register: the password-based way into the users table
\* ------------------------------------------------------------------------
\* register called: prisma.user.findUnique where {email: data.email}
RegisterFind(p, email) ==
  /\ proc[p].pc = "idle"
  /\ LET call == [IdleProc EXCEPT !.op = "register", !.email = email]
     IN proc' = [proc EXCEPT ![p] =
          IF FindUser(email) # {}
          THEN Return(call, Outcome("Conflict"))
          ELSE [call EXCEPT !.pc = "g_create"]]
  /\ UNCHANGED <<now, store, redis, history>>

\* hashPassword, prisma.user.create (created_via defaults to 'password'),
\* generateToken
RegisterCreate(p) ==
  /\ proc[p].pc = "g_create"
  /\ IF UniqueEmailViolation(proc[p].email)
     THEN /\ proc' = [proc EXCEPT ![p] = Return(proc[p], Outcome("StoreError"))]
          /\ UNCHANGED <<users, nextUserId>>
     ELSE /\ users' = users \cup
               {[id |-> nextUserId, email |-> proc[p].email,
                 createdVia |-> "password", password |-> HashedPassword]}
          /\ nextUserId' = nextUserId + 1
          /\ proc' = [proc EXCEPT ![p] =
               Return(proc[p], [Outcome("Success") EXCEPT !.userId = nextUserId])]
  /\ UNCHANGED <<now, otpRequests, nextOtpId, redis, history>>

\* ------------------------------------------------------------------------
\* Environment: the clock, and a handler that dies between two awaits
\* ------------------------------------------------------------------------
TickBy(step, maxTime) ==
  /\ now + step <= maxTime
  /\ now' = now + step
  /\ redis' = redisAt(now + step)
  /\ UNCHANGED <<store, proc, history>>

Tick(maxTime) == TickBy(ClockStep, maxTime)

Crash(p) ==
  /\ proc[p].pc # "idle"
  /\ proc' = [proc EXCEPT ![p] =
       Return(proc[p], [Outcome("Crashed") EXCEPT !.logged = proc[p].result.logged])]
  /\ UNCHANGED <<now, store, redis, history>>

\* ------------------------------------------------------------------------
\* Specifications
\* ------------------------------------------------------------------------
SubmittedCodes(draws) == generateOtp(draws) \cup {WrongCode}

\* One caller at a time: every operation, two requesters, two codes
Next ==
  \/ \E p \in SeqProcs :
       \/ \E raw \in RawEmails : RequestOtpCheck(p, raw, MaxRecords)
       \/ RequestOtpRateLimited(p)
       \/ RequestOtpCreate(p, SampledDraws)
       \/ RequestOtpSent(p)
       \/ RequestOtpSendFailed(p)
       \/ RequestOtpCompensate(p)
       \/ RequestOtpIncr(p)
       \/ RequestOtpExpire(p)
       \/ \E raw \in RawEmails, code \in SubmittedCodes(SampledDraws) :
            VerifyOtpCall(p, raw, code)
       \/ VerifyOtpFind(p)
       \/ VerifyOtpIncrement(p)
       \/ VerifyOtpMarkUsed(p)
       \/ VerifyOtpFindUser(p)
       \/ VerifyOtpCreateUser(p)
       \/ VerifyOtpCleanup(p)
       \/ \E raw \in RawEmails : GetOtpStatusCall(p, raw)
       \/ GetOtpStatusFind(p)
       \/ GetOtpStatusRate(p)
       \/ GetOtpStatusTtl(p)
  \/ Tick(MaxTimeSpec)

Spec == Init /\ [][Next]_vars

\* One caller at a time, one requester, one code: issuance over a whole
\* rate-limit window and beyond
NextRate ==
  \/ \E p \in SeqProcs :
       \/ \E raw \in RawEmails : RequestOtpCheck(p, raw, MaxRecordsRate)
       \/ RequestOtpRateLimited(p)
       \/ RequestOtpCreate(p, SampledDrawsOne)
       \/ RequestOtpSent(p)
       \/ RequestOtpSendFailed(p)
       \/ RequestOtpCompensate(p)
       \/ RequestOtpIncr(p)
       \/ RequestOtpExpire(p)
       \/ \E raw \in RawEmails : GetOtpStatusCall(p, raw)
       \/ GetOtpStatusFind(p)
       \/ GetOtpStatusRate(p)
       \/ GetOtpStatusTtl(p)
  \/ Tick(MaxTimeRate)

SpecRate == Init /\ [][NextRate]_vars

\* Overlapping callers for one requester. The issuance counter stays below
\* MAX_REQUESTS_PER_WINDOW within MaxRecordsConc, so the rate-limited branches of
\* requestOtp and getOtpStatus are not taken.
HandlersFor(p, raws, maxRecords) ==
  \/ \E raw \in raws : RequestOtpCheck(p, raw, maxRecords)
  \/ RequestOtpCreate(p, SampledDrawsOne)
  \/ RequestOtpSent(p)
  \/ RequestOtpSendFailed(p)
  \/ RequestOtpCompensate(p)
  \/ RequestOtpIncr(p)
  \/ RequestOtpExpire(p)
  \/ \E raw \in raws, code \in generateOtp(SampledDrawsOne) :
       VerifyOtpCall(p, raw, code)
  \/ VerifyOtpFind(p)
  \/ VerifyOtpIncrement(p)
  \/ VerifyOtpMarkUsed(p)
  \/ VerifyOtpFindUser(p)
  \/ VerifyOtpCreateUser(p)
  \/ VerifyOtpCleanup(p)
  \/ \E raw \in raws : GetOtpStatusCall(p, raw)
  \/ GetOtpStatusFind(p)
  \/ GetOtpStatusRate(p)

Handlers(p, maxRecords) == HandlersFor(p, RawEmails, maxRecords)

NextConc == \E p \in ConcProcs : Handlers(p, MaxRecordsConc)

SpecConc == Init /\ [][NextConc]_vars

\* Overlapping callers, each of which may die between two awaits
NextCrash == \E p \in ConcProcs : Handlers(p, MaxRecordsCrash) \/ Crash(p)

SpecCrash == Init /\ [][NextCrash]_vars

\* Overlapping requestOtp calls for one requester over a whole rate-limit
\* window and beyond
NextRace ==
  \/ \E p \in ConcProcs :
       \/ \E raw \in RawEmails : RequestOtpCheck(p, raw, MaxRecordsRace)
       \/ RequestOtpRateLimited(p)
       \/ RequestOtpCreate(p, SampledDrawsOne)
       \/ RequestOtpSent(p)
       \/ RequestOtpSendFailed(p)
       \/ RequestOtpCompensate(p)
       \/ RequestOtpIncr(p)
       \/ RequestOtpExpire(p)
  \/ TickBy(ClockStepRace, MaxTimeRate)

SpecRace == Init /\ [][NextRace]_vars

\* Overlapping callers for one requester, each of which writes the address in
\* its own way in every call it makes
NextNorm == \E p \in ConcProcs : HandlersFor(p, {VariantOf[p]}, MaxRecordsConc)

SpecNorm == Init /\ [][NextNorm]_vars

\* Overlapping OTP callers and password registrations for one address
NextIdentity ==
  \E p \in ConcProcs :
    \/ Handlers(p, MaxRecordsIdentity)
    \/ \E email \in RegisterEmails : RegisterFind(p, email)
    \/ RegisterCreate(p)

SpecIdentity == Init /\ [][NextIdentity]_vars

\* One caller at a time that may die between two awaits and that submits right
\* and wrong codes
NextBlocked ==
  \E p \in SeqProcs :
    \/ Handlers(p, MaxRecordsCrash)
    \/ \E raw \in RawEmails : VerifyOtpCall(p, raw, WrongCode)
    \/ Crash(p)

SpecBlocked == Init /\ [][NextBlocked]_vars

\* One caller at a time, with a store whose compensating delete may fail
NextFault ==
  \/ \E p \in SeqProcs : Handlers(p, MaxRecordsFault) \/ RequestOtpCompensateFailed(p)
  \/ Tick(MaxTime)

SpecFault == Init /\ [][NextFault]_vars

\* One caller at a time whose verifyOtp calls may die between two awaits, while
\* the clock runs: records of different ages, some with attempts spent on them
NextStatus ==
  \/ \E p \in SeqProcs :
       \/ Handlers(p, MaxRecordsStatus)
       \/ proc[p].op = "verifyOtp" /\ Crash(p)
  \/ Tick(MaxTimeStatus)

SpecStatus == Init /\ [][NextStatus]_vars

\* The steps of a requestOtp call that follow an answer of Redis or of the
\* database; both are taken to answer every call
RequestOtpStoreStep(p) ==
  \/ RequestOtpRateLimited(p)
  \/ RequestOtpCreate(p, SampledDrawsOne)
  \/ RequestOtpCompensate(p)
  \/ RequestOtpIncr(p)
  \/ RequestOtpExpire(p)

\* One caller at a time issuing OTPs through a mail provider that answers with
\* success, answers with a failure, or does not answer: sendOtpEmail is awaited
\* without a timeout, so nothing forces RequestOtpSent or RequestOtpSendFailed
NextDelivery ==
  \/ \E p \in SeqProcs :
       \/ \E raw \in RawEmails : RequestOtpCheck(p, raw, MaxRecordsRate)
       \/ RequestOtpStoreStep(p)
       \/ RequestOtpSent(p)
       \/ RequestOtpSendFailed(p)
  \/ Tick(MaxTime)

SpecDelivery ==
  /\ Init /\ [][NextDelivery]_vars
  /\ \A p \in SeqProcs : WF_vars(RequestOtpStoreStep(p))

\* One caller at a time issuing OTPs whose codes come from both ends of the
\* range, up to the limit of issuances in one window
NextGenerate ==
  \E p \in SeqProcs :
    \/ \E raw \in RawEmails : RequestOtpCheck(p, raw, MaxRecords)
    \/ RequestOtpRateLimited(p)
    \/ RequestOtpCreate(p, EdgeDraws)
    \/ RequestOtpSent(p)
    \/ RequestOtpSendFailed(p)
    \/ RequestOtpCompensate(p)
    \/ RequestOtpIncr(p)
    \/ RequestOtpExpire(p)

SpecGenerate == Init /\ [][NextGenerate]_vars

\* Overlapping requests through the route-level limiter, with a Redis that may
\* fail any call
NextLimiter ==
  \/ \E p \in ConcProcs :
       \/ \E ip \in ClientIps : RateLimiterGet(p, ip)
       \/ \E ip \in ClientIps : RateLimiterGetFailed(p, ip)
       \/ RateLimiterMulti(p)
       \/ RateLimiterMultiFailed(p)
  \/ Tick(MaxTimeRate)

SpecLimiter == Init /\ [][NextLimiter]_vars

\* One caller at a time acting for either of two requesters, whose OTPs carry the
\* same code, up to and beyond the limit of issuances in one window
NextIsolation ==
  \E p \in SeqProcs :
    \/ HandlersFor(p, TwoRequesters, MaxRecordsRate)
    \/ RequestOtpRateLimited(p)
    \/ GetOtpStatusTtl(p)

SpecIsolation == Init /\ [][NextIsolation]_vars

\* One caller at a time, with a store whose cleanup delete may fail
NextCleanupFault ==
  \/ \E p \in SeqProcs : Handlers(p, MaxRecordsFault) \/ VerifyOtpCleanupFailed(p)
  \/ Tick(MaxTime)

SpecCleanupFault == Init /\ [][NextCleanupFault]_vars

\* One caller at a time issuing and verifying OTPs for either of two requesters
\* while the clock runs: expired and unexpired records of both, and requests
\* refused at the limit of issuances
NextCleanup ==
  \/ \E p \in SeqProcs :
       \/ \E raw \in TwoRequesters : RequestOtpCheck(p, raw, MaxRecords)
       \/ RequestOtpRateLimited(p)
       \/ RequestOtpCreate(p, SampledDrawsOne)
       \/ RequestOtpSent(p)
       \/ RequestOtpSendFailed(p)
       \/ RequestOtpCompensate(p)
       \/ RequestOtpIncr(p)
       \/ RequestOtpExpire(p)
       \/ \E raw \in TwoRequesters, code \in generateOtp(SampledDrawsOne) :
            VerifyOtpCall(p, raw, code)
       \/ VerifyOtpFind(p)
       \/ VerifyOtpIncrement(p)
       \/ VerifyOtpMarkUsed(p)
       \/ VerifyOtpFindUser(p)
       \/ VerifyOtpCreateUser(p)
       \/ VerifyOtpCleanup(p)
  \/ Tick(MaxTime)

SpecCleanup == Init /\ [][NextCleanup]_vars

\* Overlapping verifyOtp calls, each of which may die between two awaits, on
\* records issued to one requester
NextAttempts ==
  \E p \in ConcProcs :
    \/ \E raw \in RegisterEmails : RequestOtpCheck(p, raw, MaxRecordsCrash)
    \/ RequestOtpCreate(p, SampledDrawsOne)
    \/ RequestOtpSent(p)
    \/ RequestOtpIncr(p)
    \/ RequestOtpExpire(p)
    \/ \E raw \in RegisterEmails, code \in generateOtp(SampledDrawsOne) :
         VerifyOtpCall(p, raw, code)
    \/ VerifyOtpFind(p)
    \/ VerifyOtpIncrement(p)
    \/ VerifyOtpMarkUsed(p)
    \/ VerifyOtpFindUser(p)
    \/ VerifyOtpCreateUser(p)
    \/ VerifyOtpCleanup(p)
    \/ proc[p].op = "verifyOtp" /\ Crash(p)

SpecAttempts == Init /\ [][NextAttempts]_vars

\* One caller at a time, in a process configured with any of the token lifetimes
NextToken ==
  \/ \E p \in SeqProcs :
       \/ Handlers(p, MaxRecordsFault)
       \/ VerifyOtpCleanupWith(p, JwtExpiresIn)
  \/ Tick(MaxTime)

SpecToken == Init /\ [][NextToken]_vars

\* ------------------------------------------------------------------------
\* Properties
\* ------------------------------------------------------------------------
Verified(p) == proc[p].pc = "idle" /\ proc[p].op = "verifyOtp"
\* The issuance counter under a key of a Redis store, as its readers take it:
\* 0 when absent
CounterIn(r, key) == IF key \in DOMAIN r THEN r[key].val ELSE 0
CounterOf(email) == CounterIn(redis, rateLimitKey(email))
Requested(p) == proc[p].pc = "idle" /\ proc[p].op = "requestOtp"

\* C1: brute-force bound. A verifyOtp call made after MAX_OTP_ATTEMPTS consecutive
\* wrong-code calls against the requester's only active record does not succeed
\* on that record.
C1_BruteForceBound ==
  \A p \in AllProcs :
    (Verified(p) /\ proc[p].result.kind = "Success"
       /\ proc[p].guesses.target = proc[p].result.otpId)
      => proc[p].guesses.count < MAX_OTP_ATTEMPTS

\* C2: exactly-once success. No record yields more than one successful verifyOtp.
C2_ExactlyOnceSuccess ==
  \A id \in DOMAIN successCount : successCount[id] <= 1

\* C3: sequential rate limit. A requestOtp call is refused exactly when
\* MAX_REQUESTS_PER_WINDOW calls have succeeded in the window that the first of
\* them opened and that window has not elapsed; a call that is not refused and
\* whose delivery succeeds returns success.
C3_SequentialRateLimit ==
  [][\A p \in SeqProcs :
       /\ (proc[p].pc = "idle" /\ proc'[p].op = "requestOtp"
             /\ proc'[p].pc \in {"r_ttl", "r_create"})
            => (proc'[p].pc = "r_ttl"
                  <=> IssuedInWindow(proc'[p].email, now) >= MAX_REQUESTS_PER_WINDOW)
       /\ (proc[p].pc = "r_ttl" /\ proc'[p].pc = "idle")
            => proc'[p].result.kind = "RateLimited"
       /\ (proc[p].pc \in {"r_incr", "r_expire"} /\ proc'[p].pc = "idle")
            => /\ proc'[p].result.kind = "Success"
               /\ IssuedInWindow(proc[p].email, now)' <= MAX_REQUESTS_PER_WINDOW
    ]_vars

\* C3 witness: a fourth call in a live window has been refused
C3_Witness ==
  \E p \in SeqProcs :
    /\ Requested(p) /\ proc[p].result.kind = "RateLimited"
    /\ IssuedInWindow(proc[p].email, now) = MAX_REQUESTS_PER_WINDOW

\* C4: a wrong-code verifyOtp call against the requester's only active record,
\* found with attempts = a < MAX_OTP_ATTEMPTS, leaves attempts = a + 1 on it and
\* fails with InvalidOrExpired carrying remaining = MAX_OTP_ATTEMPTS - (a + 1).
C4_WrongCodeCostsAttempt ==
  \A p \in AllProcs :
    (Verified(p) /\ proc[p].result.kind # "Success" /\ proc[p].guesses.count > 0
       /\ proc[p].guesses.attempts < MAX_OTP_ATTEMPTS)
      => /\ proc[p].result.kind = "InvalidOrExpired"
         /\ proc[p].result.remaining = MAX_OTP_ATTEMPTS - (proc[p].guesses.attempts + 1)
         /\ \A r \in otpRequests :
              r.id = proc[p].guesses.target => r.attempts = proc[p].guesses.attempts + 1

\* C5: one-time use. Between two issuances to a requester, a (requester, code)
\* pair is verified successfully at most once.
C5_OneTimeUse ==
  \A k \in DOMAIN consumed : consumed[k] <= 1

\* C6: identity uniqueness. At most one identity per normalised email; a
\* successful verifyOtp returns the id of that identity; no step adds a row for
\* an email that has one or changes that row.
C6_IdentityUnique ==
  /\ [](/\ \A u1, u2 \in users : u1.email = u2.email => u1 = u2
        /\ \A u \in users : u.email = NormalizeEmail(u.email)
        /\ \A p \in AllProcs :
             (Verified(p) /\ proc[p].result.kind = "Success")
               => \E u \in users : u.email = proc[p].email /\ u.id = proc[p].result.userId)
  /\ [][\A u \in users : {v \in users' : v.email = u.email} = {u}]_vars

\* C6 witness: two overlapping verifyOtp calls for one email both logged in to
\* the same identity
C6_Witness ==
  \E p, q \in AllProcs :
    /\ p # q /\ Verified(p) /\ Verified(q)
    /\ proc[p].result.kind = "Success" /\ proc[q].result.kind = "Success"
    /\ proc[p].result.userId = proc[q].result.userId
    /\ Cardinality(users) = 1

\* C7: blocked is terminal. Once a record's attempts has reached
\* MAX_OTP_ATTEMPTS it never drops below it.
C7_BlockedIsTerminal ==
  [][\A r \in otpRequests :
       r.attempts >= MAX_OTP_ATTEMPTS
         => \A r2 \in otpRequests' : r2.id = r.id => r2.attempts >= MAX_OTP_ATTEMPTS
    ]_vars

\* C8: no under-count. A record's attempts is at least the number of attempts
\* updates that verifyOtp calls have written to it.
C8_NoUndercount ==
  \A r \in otpRequests : r.attempts >= Count(incrementsDone, r.id)

\* C9: after a requestOtp call that ended in a delivery failure the call has
\* failed with DeliveryFailed and the record it created is gone: no verifyOtp
\* lookup made from then on selects it, no getOtpStatus lookup made from then on
\* reports it, and no verifyOtp call returns from then on having logged in with
\* the undelivered code of that record.
C9_UndeliveredRecordGone ==
  /\ [](/\ \A id \in undelivered : ~OtpExists(id)
        /\ \A p \in AllProcs :
             (Requested(p) /\ proc[p].createdId \in undelivered)
               => proc[p].result.kind = "DeliveryFailed")
  /\ [][\A p \in AllProcs :
          /\ (proc[p].pc \in {"v_find", "s_find"} /\ proc'[p].pc \in {"v_incr", "s_rate"})
               => proc'[p].otpRequest.id \notin undelivered
          /\ (proc[p].op = "verifyOtp" /\ proc[p].pc # "idle" /\ proc'[p].pc = "idle"
                 /\ proc'[p].result.kind = "Success")
               => proc'[p].result.otpId \notin undelivered]_vars

\* C10: the compensating delete removes the record created by the failing call
\* and no other record.
C10_CompensateDeletesOnlyCreated ==
  [][\A p \in AllProcs :
       (proc[p].pc = "r_delete" /\ proc'[p].pc = "idle"
          /\ proc'[p].result.kind = "DeliveryFailed")
         => otpRequests' = {r \in otpRequests : r.id # proc[p].createdId}
    ]_vars

\* C11: a requestOtp call whose delivery failed ends with DeliveryFailed also
\* when its compensating delete fails, and the record it created then stays.
C11_DeleteFailureStillDeliveryFailed ==
  [][\A p \in AllProcs :
       (proc[p].pc = "r_delete" /\ proc'[p].pc = "idle")
         => /\ proc'[p].result.kind = "DeliveryFailed"
            /\ (\E r \in otpRequests' : r.id = proc[p].createdId)
                 => otpRequests' = otpRequests
    ]_vars

\* C12: a requestOtp call reads the issuance counter before any durable write;
\* with a counter of MAX_REQUESTS_PER_WINDOW or more it fails with RateLimited
\* and changes nothing: no record, no code, no delivery, no increment.
C12_RateLimitedChangesNothing ==
  [][\A p \in SeqProcs :
       /\ (proc[p].pc = "idle" /\ proc'[p].op = "requestOtp" /\ proc'[p].pc # "idle")
            => /\ UNCHANGED <<store, redis>>
               /\ (/\ redisGet(rateLimitKey(proc'[p].email)) # Nil
                   /\ redisGet(rateLimitKey(proc'[p].email)) >= MAX_REQUESTS_PER_WINDOW)
                    => proc'[p].pc = "r_ttl"
       /\ (proc[p].pc = "r_ttl" /\ proc'[p] # proc[p])
            => /\ proc'[p].pc = "idle"
               /\ proc'[p].result.kind = "RateLimited"
               /\ proc'[p].createdId = Nil /\ proc'[p].code = <<>>
               /\ UNCHANGED <<store, redis>>
       /\ (otpRequests' # otpRequests /\ nextOtpId' # nextOtpId)
            => proc[p].pc = "r_create"
    ]_vars

\* C12 witness: a call was refused at a counter of MAX_REQUESTS_PER_WINDOW and
\* no record beyond the ones issued before exists
C12_Witness ==
  \E p \in SeqProcs :
    /\ Requested(p) /\ proc[p].result.kind = "RateLimited"
    /\ redisGet(rateLimitKey(proc[p].email)) = MAX_REQUESTS_PER_WINDOW
    /\ nextOtpId = MAX_REQUESTS_PER_WINDOW + 1
    /\ proc[p].createdId = Nil

\* C13: the increment step of a requestOtp call raises the requester's issuance
\* counter by exactly one; it is reached only after a successful delivery and
\* every successful call passes through it; no other step of requestOtp,
\* verifyOtp or getOtpStatus changes the counter.
C13_CounterCountsDeliveries ==
  [][\A p \in AllProcs :
       /\ (proc[p].pc = "r_incr" /\ proc'[p] # proc[p])
            => /\ CounterIn(redis', rateLimitKey(proc[p].email))
                    = CounterIn(redis, rateLimitKey(proc[p].email)) + 1
               /\ \A k \in (DOMAIN redis \cup DOMAIN redis') \ {rateLimitKey(proc[p].email)} :
                    CounterIn(redis', k) = CounterIn(redis, k)
       /\ (proc[p].pc # "r_incr" /\ proc'[p] # proc[p])
            => \A k \in DOMAIN redis \cup DOMAIN redis' :
                 CounterIn(redis', k) = CounterIn(redis, k)
       /\ (proc'[p].pc = "r_incr" /\ proc[p].pc # "r_incr") => proc[p].pc = "r_send"
       /\ (proc'[p].pc = "r_expire" /\ proc[p].pc # "r_expire") => proc[p].pc = "r_incr"
       /\ (proc[p].pc # "idle" /\ proc[p].op = "requestOtp" /\ proc'[p].pc = "idle")
            => (proc'[p].result.kind = "Success" <=> proc[p].pc \in {"r_incr", "r_expire"})
    ]_vars

\* C13 witness: two calls were delivered and a third failed in delivery; the
\* counter is 2
C13_Witness ==
  \E p \in AllProcs :
    /\ Requested(p) /\ proc[p].result.kind = "DeliveryFailed"
    /\ CounterOf(proc[p].email) = 2
    /\ nextOtpId = 4

\* C14: fixed window under races. The TTL of an issuance counter is set only by
\* the call whose increment took the count from 0 to 1, on a key that has no
\* TTL yet, to RATE_LIMIT_WINDOW_MINUTES from then; no other increment and no
\* other step sets or changes it.
C14_TtlSetOnceByFirstIncrement ==
  [][/\ \A k \in DOMAIN redis \cap DOMAIN redis' :
          redis'[k].exp # redis[k].exp
            => /\ redis[k].exp = Nil
               /\ redis'[k].exp = now + RATE_LIMIT_WINDOW_MINUTES
               /\ \E p \in AllProcs :
                    /\ proc[p].pc = "r_expire" /\ proc'[p].pc = "idle"
                    /\ k = rateLimitKey(proc[p].email)
     /\ \A p \in AllProcs :
          (proc[p].pc = "r_incr" /\ proc'[p] # proc[p])
            => (proc'[p].pc = "r_expire"
                  <=> CounterIn(redis, rateLimitKey(proc[p].email)) = 0)
    ]_vars

\* C14 witness: two overlapping calls have incremented the counter, the TTL was
\* set by the first of them after the second one's increment
C14_Witness ==
  \E p, q \in ConcProcs :
    /\ p # q /\ Requested(p) /\ Requested(q)
    /\ proc[p].result.kind = "Success" /\ proc[q].result.kind = "Success"
    /\ CounterOf(proc[p].email) = 2
    /\ redis[rateLimitKey(proc[p].email)].exp = now + RATE_LIMIT_WINDOW_MINUTES
    /\ now > 0

\* C16: bounded overshoot. With k overlapping callers the issuance counter of a
\* requester never exceeds MAX_REQUESTS_PER_WINDOW + (k - 1).
C16_BoundedOvershoot ==
  \A k \in DOMAIN redis :
    redis[k].val <= MAX_REQUESTS_PER_WINDOW + (Cardinality(ConcProcs) - 1)

\* C16 witness: two overlapping callers have issued one OTP more than
\* MAX_REQUESTS_PER_WINDOW in one window
C16_Witness ==
  /\ \E k \in DOMAIN redis : redis[k].val = MAX_REQUESTS_PER_WINDOW + 1
  /\ \A p \in ConcProcs : Requested(p) /\ proc[p].result.kind = "Success"
  /\ Cardinality({r \in otpRequests : r.createdAt = now}) = MAX_REQUESTS_PER_WINDOW + 1

\* C15: the issuance counter always resets. An existing counter key carries a
\* TTL in every state, except while the call that created it is about to set it.
C15_CounterKeyHasTtl ==
  \A k \in DOMAIN redis :
    redis[k].exp = Nil
      => \E p \in AllProcs : proc[p].pc = "r_expire" /\ rateLimitKey(proc[p].email) = k

\* C17: a verifyOtp call for a requester whose only active record has attempts
\* of MAX_OTP_ATTEMPTS or more fails with Blocked, whatever code is submitted,
\* and leaves otp_requests unchanged.
C17_BlockedWhateverCode ==
  [][\A p \in AllProcs :
       (/\ proc[p].pc = "v_find" /\ proc'[p] # proc[p]
        /\ \E r \in otpRequests :
             /\ ActiveOtps(proc[p].email, proc[p].clock) = {r}
             /\ r.attempts >= MAX_OTP_ATTEMPTS)
         => /\ proc'[p].pc = "idle"
            /\ proc'[p].result.kind = "Blocked"
            /\ otpRequests' = otpRequests
    ]_vars

\* C18: a verifyOtp call for a requester without an unused record that was
\* unexpired when the call was made fails with InvalidOrExpired, without a
\* remaining count; the call and the answer of its lookup leave the tables and
\* the issuance counter unchanged.
C18_NoCandidateNoChange ==
  [][\A p \in AllProcs :
       /\ (proc[p].pc = "idle" /\ proc'[p].pc = "v_find") => UNCHANGED <<store, redis>>
       /\ (/\ proc[p].pc = "v_find" /\ proc'[p] # proc[p]
           /\ ActiveOtps(proc[p].email, proc[p].clock) = {})
         => /\ proc'[p].pc = "idle"
            /\ proc'[p].result.kind = "InvalidOrExpired"
            /\ proc'[p].result.remaining = Nil
            /\ UNCHANGED <<store, redis>>
    ]_vars

\* C18 witness: the code of an expired record was refused while the requester
\* had a used record and an expired one, and no other
C18_Witness ==
  \E p \in AllProcs :
    /\ Verified(p) /\ proc[p].result.kind = "InvalidOrExpired"
    /\ ActiveOtps(proc[p].email, now) = {}
    /\ \E r1, r2 \in otpRequests :
         /\ r1.email = proc[p].email /\ r1.used
         /\ r2.email = proc[p].email /\ ~r2.used /\ r2.expiresAt <= now
         /\ r2.code = proc[p].code

\* The address that every element of RawEmails is a case/whitespace variant of
Canonical == <<"a", "@", "x">>

\* C19: normalisation round trip. Whatever variant of the address a call is
\* given, records, identities and the issuance counter are kept under the
\* trimmed, lower-cased address, and what verifyOtp and getOtpStatus find does
\* not depend on the variant they are given.
C19_NormalizationRoundTrip ==
  /\ [](/\ \A r \in otpRequests : r.email = Canonical
        /\ \A u \in users : u.email = Canonical
        /\ DOMAIN redis \subseteq {rateLimitKey(Canonical)})
  /\ [][\A p \in AllProcs :
          /\ (proc[p].pc = "idle" /\ proc'[p].pc \in {"v_find", "s_find"})
               => proc'[p].email = Canonical
          /\ (proc[p].pc = "v_find" /\ proc'[p] # proc[p])
               => (proc'[p].result.kind = "InvalidOrExpired"
                     <=> ~ \E r \in otpRequests :
                            r.code = proc[p].code /\ ~r.used
                              /\ r.expiresAt > proc[p].clock)
          /\ (proc[p].pc = "s_find" /\ proc'[p] # proc[p])
               => (proc'[p].status.has_active_otp
                     <=> \E r \in otpRequests : ~r.used /\ r.expiresAt > proc[p].clock)
       ]_vars

\* C19 witness: an OTP requested under one variant of the address was verified
\* under the other one, and both callers' requests were counted under one key
C19_Witness ==
  \E p, q \in ConcProcs :
    /\ VariantOf[p] # VariantOf[q]
    /\ Requested(p) /\ proc[p].result.kind = "Success"
    /\ Verified(q) /\ proc[q].result.kind = "Success"
    /\ proc[q].result.otpId = proc[p].createdId
    /\ CounterOf(Canonical) = 2

\* C20: the only step of the OTP operations that changes the users table is
\* verifyOtp's create for an email without an identity (none under any spelling
\* that the users table takes for the same address), which adds exactly one
\* row, with createdVia = otp and no password; no step of any operation changes
\* or deletes an existing row.
C20_OtpProvisioning ==
  [][/\ \A u \in users : u \in users'
     /\ \A p \in AllProcs :
          (proc'[p] # proc[p] /\ proc[p].pc # "g_create" /\ users' # users)
            => /\ proc[p].pc = "v_createUser"
               /\ ~ \E u \in users : CollationEqual(u.email, proc[p].email)
               /\ \E u \in users' :
                    /\ users' = users \cup {u}
                    /\ u.email = proc[p].email
                    /\ u.createdVia = "otp" /\ u.password = Nil
                    /\ proc'[p].user = u.id
    ]_vars

\* C20 witness: a verifyOtp call provisioned the identity of its requester, and
\* a later registration of the same address, written in capitals, was refused
C20_Witness ==
  \E p, q \in AllProcs :
    /\ proc[q].pc = "idle" /\ proc[q].op = "register"
    /\ proc[q].result.kind = "Conflict" /\ proc[q].email # proc[p].email
    /\ Verified(p) /\ proc[p].result.kind = "Success"
    /\ users = {OtpUser(proc[p].result.userId, proc[p].email)}

\* C21: no enumeration signal. A verifyOtp call whose submitted code is not the
\* code of an unused, unexpired record of the requester returns InvalidOrExpired
\* with no remaining-attempts value and no record reference, and changes nothing,
\* whatever records the requester has (none, an active one with another code,
\* only used or expired ones).
C21_NoEnumerationSignal ==
  [][\A p \in AllProcs :
       (/\ proc[p].pc = "v_find" /\ proc'[p] # proc[p]
        /\ ~ \E r \in otpRequests :
               /\ r.email = proc[p].email /\ r.code = proc[p].code
               /\ ~r.used /\ r.expiresAt > proc[p].clock)
         => /\ proc'[p].pc = "idle"
            /\ proc'[p].result.kind = "InvalidOrExpired"
            /\ proc'[p].result.remaining = Nil
            /\ proc'[p].result.otpId = Nil
            /\ proc'[p].result.userId = Nil
            /\ otpRequests' = otpRequests /\ users' = users /\ redis' = redis
    ]_vars

\* C21 witness: a generated code was refused while the requester held an active
\* record with another code and a used record with the submitted code
C21_Witness ==
  \E p \in AllProcs :
    /\ Verified(p) /\ proc[p].result = Outcome("InvalidOrExpired")
    /\ proc[p].code \in generateOtp(SampledDraws)
    /\ \E r \in ActiveOtps(proc[p].email, now) : r.code # proc[p].code
    /\ \E r \in otpRequests :
         r.email = proc[p].email /\ r.code = proc[p].code /\ r.used

\* C22: the OTP code is in no value returned to a caller. What a successful
\* requestOtp call returns has the fields email and expires_in and no other,
\* holding the requester and OTP_EXPIRY_MINUTES in seconds; the result of any
\* other call carries no response value, and no returned address is a code.
C22_CodeNeverReturned ==
  \A p \in AllProcs :
    proc[p].pc = "idle"
      => /\ (Requested(p) /\ proc[p].result.kind = "Success")
              => /\ DOMAIN proc[p].result.response = {"email", "expires_in"}
                 /\ proc[p].result.response.email = proc[p].email
                 /\ proc[p].result.response.expires_in = 600
         /\ ~(Requested(p) /\ proc[p].result.kind = "Success")
              => proc[p].result.response = NoResponse
         /\ \A r \in otpRequests : proc[p].result.response.email # r.code

\* C22 witness: a requestOtp call returned success for a record whose code is in
\* the table, next to a record of the same requester with another code
C22_Witness ==
  \E p \in AllProcs :
    /\ Requested(p) /\ proc[p].result.kind = "Success"
    /\ \E r1, r2 \in otpRequests :
         /\ r1.id = proc[p].createdId /\ r1.code = proc[p].code
         /\ r2.email = r1.email /\ r2.code # r1.code

StatusReturned(p) == proc[p].pc = "idle" /\ proc[p].op = "getOtpStatus"

\* C23: getOtpStatus is read-only. No step of a getOtpStatus call changes a
\* record, an identity, or the value or the expiry of an issuance counter.
C23_StatusReadOnly ==
  [][\A p \in AllProcs :
       (proc'[p] # proc[p] /\ proc'[p].op = "getOtpStatus")
         => /\ otpRequests' = otpRequests /\ nextOtpId' = nextOtpId
            /\ users' = users /\ nextUserId' = nextUserId
            /\ redis' = redis
    ]_vars

\* C23 witness: a getOtpStatus call returned for a requester with an identity, an
\* active record and an exhausted issuance counter
C23_Witness ==
  \E p \in AllProcs :
    /\ StatusReturned(p) /\ proc[p].status.has_active_otp
    /\ ~proc[p].status.can_request_new
    /\ \E u \in users : u.email = proc[p].email
    /\ CounterOf(proc[p].email) = MAX_REQUESTS_PER_WINDOW
    /\ redis[rateLimitKey(proc[p].email)].exp # Nil

\* C24: getOtpStatus reports has_active_otp exactly when the requester has a
\* record with used = false and expiresAt > now, now being the time at which the
\* call was made; when it does, expires_in_seconds (the whole seconds that remain
\* when the lookup has answered, 0 to 600) and attempts_used (0 to
\* MAX_OTP_ATTEMPTS) are those of the most recently created such record, and the
\* call returns them as read.
C24_StatusReportsMostRecent ==
  [][\A p \in AllProcs :
       /\ (proc[p].pc = "s_find" /\ proc'[p].pc = "s_rate")
            => LET active == {r \in otpRequests :
                                /\ r.email = proc[p].email /\ ~r.used
                                /\ r.expiresAt > proc[p].clock}
                   st == proc'[p].status
               IN /\ st.has_active_otp <=> active # {}
                  /\ st.has_active_otp =>
                       /\ \E r \in active :
                            /\ \A o \in active : o.createdAt <= r.createdAt
                            /\ st.expires_in_seconds
                                 = (IF r.expiresAt > now THEN (r.expiresAt - now) * 60 ELSE 0)
                            /\ st.attempts_used = r.attempts
                       /\ st.expires_in_seconds \in 0..600
                       /\ st.attempts_used \in 0..MAX_OTP_ATTEMPTS
       /\ (proc[p].pc \in {"s_rate", "s_ttl"} /\ proc'[p].pc = "idle"
              /\ proc'[p].result.kind = "Success")
            => /\ proc'[p].status.has_active_otp = proc[p].status.has_active_otp
               /\ proc'[p].status.expires_in_seconds = proc[p].status.expires_in_seconds
               /\ proc'[p].status.attempts_used = proc[p].status.attempts_used
    ]_vars

\* C24 witness: a getOtpStatus call reported the newer of two records that were
\* active when it was made, the newer with an attempt spent on it and the older
\* with none; the records expired before the lookup answered, and the call
\* reported no time remaining
C24_Witness ==
  \E p \in AllProcs :
    /\ StatusReturned(p) /\ proc[p].status.has_active_otp
    /\ \E r1, r2 \in otpRequests :
         /\ r1.email = proc[p].email /\ r2.email = proc[p].email
         /\ ~r1.used /\ ~r2.used
         /\ r1.createdAt < r2.createdAt
         /\ r1.attempts = 0 /\ r2.attempts > 0
         /\ r2.expiresAt = now
         /\ proc[p].status.attempts_used = r2.attempts
         /\ proc[p].status.expires_in_seconds = 0

\* C25: getOtpStatus and requestOtp agree on rate limiting. can_request_new is
\* true exactly when a requestOtp call in the state that getOtpStatus read would
\* not be refused as rate-limited; a status returned with can_request_new false
\* carries next_request_available_in, positive and equal to the remaining time
\* to live of the requester's issuance counter.
C25_StatusAgreesWithRequest ==
  [][\A p \in AllProcs :
       LET key == <<"otp_rate_limit", proc[p].email>>
           refused == key \in DOMAIN redis /\ redis[key].val >= MAX_REQUESTS_PER_WINDOW
       IN /\ (proc[p].pc = "s_rate" /\ proc'[p] # proc[p])
               => IF refused
                  THEN proc'[p].pc = "s_ttl"
                  ELSE proc'[p].pc = "idle" /\ proc'[p].status.can_request_new
          /\ (proc[p].pc = "s_ttl" /\ proc'[p].pc = "idle"
                /\ proc'[p].result.kind = "Success")
               => /\ ~proc'[p].status.can_request_new
                  /\ proc'[p].status.next_request_available_in # Nil
                  /\ proc'[p].status.next_request_available_in > 0
                  /\ key \in DOMAIN redis /\ redis[key].exp # Nil
                  /\ proc'[p].status.next_request_available_in
                       = (redis[key].exp - now) * 60
    ]_vars

\* C26: one active record per requester. The record a verifyOtp call goes on to
\* consume is the one getOtpStatus reports, the most recently created unused,
\* unexpired record of the requester: the code of an earlier requestOtp is not
\* accepted once a newer OTP has been issued.
C26_OnlyNewestAccepted ==
  [][\A p \in AllProcs :
       (proc[p].pc = "v_find" /\ proc'[p].pc = "v_incr")
         => \A r \in otpRequests :
              (r.email = proc[p].email /\ ~r.used /\ r.expiresAt > proc[p].clock)
                => r.createdAt <= proc'[p].otpRequest.createdAt
    ]_vars

\* C27: requestOtp always terminates with success, RateLimited or DeliveryFailed,
\* also when the delivery call does not answer: the call is then ended as a
\* delivery failure and the created record is deleted.
C27_RequestOtpTerminates ==
  \A p \in SeqProcs :
    (proc[p].op = "requestOtp" /\ proc[p].pc # "idle")
      ~> (/\ proc[p].pc = "idle"
          /\ proc[p].result.kind \in {"Success", "RateLimited", "DeliveryFailed"})

\* C28: generateOtp returns the decimal string of an integer of OtpMin..OtpMax,
\* both ends included: six ASCII digits, the first not 0, accepted by
\* validateOtpFormat; and every integer of that range is a possible output.
C28_GenerateOtpRange ==
  \A p \in AllProcs :
    (proc[p].op = "requestOtp" /\ proc[p].pc = "r_send")
      => /\ validateOtpFormat(proc[p].code)
         /\ proc[p].code[1] # "0"
         /\ \E n \in OtpMin..OtpMax : proc[p].code = toString(n)
         /\ \A n \in EdgeDraws \cap (OtpMin..OtpMax) :
              toString(n) \in generateOtp(EdgeDraws)

\* C29: the route-level limiter fails open. A limiter call ends by passing the
\* request on or by rejecting it with RateLimitError, never with the failure of
\* Redis: when a Redis call fails the request is passed on. It rejects only a
\* request that finds the stored count at or above maxRequests, and does so
\* without changing the count or its expiry.
C29_LimiterFailsOpen ==
  [][\A p \in AllProcs :
       (proc'[p] # proc[p] /\ proc'[p].op = "rateLimiter" /\ proc'[p].pc = "idle")
         => LET key == <<"rate_limit", proc'[p].email>>
                full == key \in DOMAIN redis /\ redis[key].val >= LimiterMaxRequests
            IN /\ proc'[p].result.kind \in {"Passed", "RateLimited"}
               /\ proc'[p].result.logged => proc'[p].result.kind = "Passed"
               /\ proc'[p].result.kind = "RateLimited"
                    => /\ proc[p].pc = "idle" /\ full
                       /\ redis' = redis
               /\ (proc[p].pc = "idle" /\ full /\ ~proc'[p].result.logged)
                    => proc'[p].result.kind = "RateLimited"
    ]_vars

\* C29 witness: with the count at maxRequests, one request was rejected and
\* another, whose redis.get failed, was passed on
C29_Witness ==
  \E p, q \in AllProcs :
    /\ proc[p].pc = "idle" /\ proc[p].op = "rateLimiter"
    /\ proc[p].result.kind = "RateLimited"
    /\ proc[q].pc = "idle" /\ proc[q].op = "rateLimiter"
    /\ proc[q].result.kind = "Passed" /\ proc[q].result.logged
    /\ CounterIn(redis, limiterKey(proc[p].email)) = LimiterMaxRequests

\* C30: requester isolation. No step of an operation called for one requester
\* changes the issuance counter (value or expiry), a record or the identity of
\* another requester, and every issuance counter is kept under the address of
\* one requester: requesters share no rate limit.
C30_RequesterIsolation ==
  /\ [](DOMAIN redis \subseteq {<<"otp_rate_limit", e>> : e \in TwoRequesters})
  /\ [][\A p \in AllProcs :
          proc'[p] # proc[p]
            => \A b \in TwoRequesters \ {proc'[p].email} :
                 LET key == <<"otp_rate_limit", b>>
                 IN /\ {r \in otpRequests' : r.email = b} = {r \in otpRequests : r.email = b}
                    /\ {u \in users' : u.email = b} = {u \in users : u.email = b}
                    /\ key \in DOMAIN redis' <=> key \in DOMAIN redis
                    /\ key \in DOMAIN redis => redis'[key] = redis[key]
       ]_vars

\* C30 witness: one requester has exhausted its issuance counter and has an
\* identity, and a requestOtp call for the other requester has succeeded
C30_Witness ==
  \E p \in AllProcs : \E a \in TwoRequesters :
    /\ Requested(p) /\ proc[p].result.kind = "Success" /\ proc[p].email # a
    /\ CounterOf(a) = MAX_REQUESTS_PER_WINDOW
    /\ CounterOf(proc[p].email) = 1
    /\ \E u \in users : u.email = a
    /\ \E r1, r2 \in otpRequests : r1.email = a /\ r2.email # a /\ r1.code = r2.code

\* C31: no OTP is consumed without a login. When a verifyOtp call has ended with
\* an error, the record it selected is not left with used = true, unless another
\* call has logged in with that record or is still working on it.
C31_NoConsumptionWithoutLogin ==
  \A p \in AllProcs :
    (Verified(p) /\ proc[p].result.kind # "Success" /\ proc[p].result.otpId # Nil)
      => \A r \in otpRequests :
           (/\ r.id = proc[p].result.otpId
            /\ Count(successCount, r.id) = 0
            /\ \A q \in AllProcs :
                 proc[q].pc = "idle" \/ proc[q].otpRequest.id # r.id)
             => ~r.used

\* C32: the cleanup at the end of a successful verifyOtp is best-effort. Once the
\* record is marked used and the identity is at hand, the call returns success
\* with that identity, whether the cleanup delete succeeds or fails.
C32_CleanupBestEffort ==
  [][\A p \in AllProcs :
       (proc[p].pc = "v_cleanup" /\ proc'[p].pc = "idle")
         => /\ proc'[p].result.kind = "Success"
            /\ proc'[p].result.userId = proc[p].user
    ]_vars

\* C33: the cleanup run by verifyOtp deletes only records of the verifying
\* requester whose expiresAt is in the past. Records disappear in two steps only,
\* the compensating delete of requestOtp and the last step of a verifyOtp call
\* that returns success; the latter deletes exactly the requester's records that
\* had expiresAt < now when the call reached its cleanup, so no unexpired record
\* and no record of another requester.
C33_CleanupScope ==
  [][\A p \in AllProcs :
       LET deleted == {r \in otpRequests : ~ \E n \in otpRequests' : n.id = r.id}
       IN (proc'[p] # proc[p] /\ deleted # {} /\ proc[p].pc # "r_delete")
            => /\ proc[p].pc = "v_cleanup"
               /\ proc'[p].pc = "idle" /\ proc'[p].result.kind = "Success"
               /\ \E r \in otpRequests : r.id = proc[p].otpRequest.id /\ r.used
               /\ deleted = {r \in otpRequests :
                               r.email = proc[p].email /\ r.expiresAt < proc[p].clock}
               /\ \A r \in deleted : r.email = proc[p].email /\ r.expiresAt < now
    ]_vars

\* C33 witness: a successful verifyOtp has removed an expired record of its
\* requester and left the used record it consumed, while an expired record of the
\* other requester is still in the table
C33_Witness ==
  \E p \in AllProcs :
    /\ Verified(p) /\ proc[p].result.kind = "Success"
    /\ undelivered = {}
    /\ Cardinality(otpRequests) = 2 /\ nextOtpId = 4
    /\ \E r1, r2 \in otpRequests :
         /\ r1.id = proc[p].result.otpId /\ r1.used /\ r1.expiresAt >= now
         /\ r2.email # proc[p].email /\ r2.expiresAt < now

\* C34: record immutability. A record is created with attempts = 0, used = false
\* and expiresAt = its creation time (created_at) + OTP_EXPIRY_MINUTES; afterwards its requester,
\* code, creation time and expiresAt never change, attempts and used change only
\* in a step of a verifyOtp call, and used never goes from true back to false.
C34_RecordImmutability ==
  [][/\ \A n \in otpRequests' :
          (~ \E r \in otpRequests : r.id = n.id)
            => /\ n.attempts = 0 /\ ~n.used
               /\ n.createdAt = now /\ n.expiresAt = n.createdAt + 10
               /\ \E p \in AllProcs : proc[p].op = "requestOtp" /\ n.email = proc[p].email
     /\ \A r \in otpRequests : \A n \in otpRequests' :
          r.id = n.id
            => /\ n.email = r.email /\ n.code = r.code
               /\ n.createdAt = r.createdAt /\ n.expiresAt = r.expiresAt
               /\ r.used => n.used
               /\ (n.attempts # r.attempts \/ n.used # r.used)
                    => \E p \in AllProcs :
                         /\ proc'[p] # proc[p] /\ proc[p].op = "verifyOtp"
                         /\ proc[p].otpRequest.id = r.id
    ]_vars

\* C35: under any interleaving of verifyOtp calls, every record has
\* 0 <= attempts <= MAX_OTP_ATTEMPTS.
C35_AttemptsInRange ==
  \A r \in otpRequests : r.attempts >= 0 /\ r.attempts <= 5

\* C35 witness: a record has reached MAX_OTP_ATTEMPTS and a later verifyOtp call
\* with its code was refused as blocked
C35_Witness ==
  \E p \in AllProcs : \E r \in otpRequests :
    /\ r.attempts = MAX_OTP_ATTEMPTS
    /\ Verified(p) /\ proc[p].result.kind = "Blocked" /\ proc[p].result.otpId = r.id
    /\ Count(incrementsDone, r.id) >= MAX_OTP_ATTEMPTS

\* C36: one expiry predicate everywhere. A record counts as expired exactly when
\* now > expiresAt, and at every instant the candidate lookup of verifyOtp, the
\* active lookup of getOtpStatus, the cleanup delete and isOtpExpired agree with
\* that on every record.
C36_OneExpiryPredicate ==
  \A r \in otpRequests :
    LET expired == now > r.expiresAt
    IN /\ ~r.used => (r \in ValidOtps(r.email, r.code, now) <=> ~expired)
       /\ ~r.used => (r \in ActiveOtps(r.email, now) <=> ~expired)
       /\ r \in ExpiredOtps(r.email, now) <=> expired
       /\ isOtpExpired(r.createdAt, OTP_EXPIRY_MINUTES, now) <=> expired

\* C37: the window of a limiter key is fixed by its first counted request. The
\* limiter rejects a request only when the count stored under its key has
\* reached maxRequests, and a later request that is let through and counted does
\* not postpone the expiry of the key.
C37_LimiterWindowFixed ==
  [][/\ \A p \in AllProcs :
          (proc'[p] # proc[p] /\ proc'[p].op = "rateLimiter"
             /\ proc'[p].result.kind = "RateLimited")
            => CounterIn(redis, <<"rate_limit", proc'[p].email>>) >= LimiterMaxRequests
     /\ \A k \in DOMAIN redis \cap DOMAIN redis' :
          k[1] = "rate_limit" => redis'[k].exp = redis[k].exp
    ]_vars

\* C38: whenever verifyOtp has selected a candidate record, the stored code of
\* the record equals the submitted code: no call ends in the mismatch branch
\* (a remaining-attempts value, or Blocked for a record below MAX_OTP_ATTEMPTS),
\* and a call with a code that is not the code of the selected record changes
\* the attempts of no record.
C38_MismatchBranchDead ==
  /\ [](\A p \in AllProcs :
          /\ proc[p].pc \in {"v_incr", "v_used", "v_findUser", "v_createUser", "v_cleanup"}
               => proc[p].otpRequest.code = proc[p].code
          /\ Verified(p) => proc[p].result.remaining = Nil)
  /\ [][\A p \in AllProcs :
          (proc'[p] # proc[p] /\ proc'[p].op = "verifyOtp"
             /\ \E r \in otpRequests : r.attempts < 5 /\
                   ~ \E n \in otpRequests' : n.id = r.id /\ n.attempts = r.attempts)
            => /\ proc[p].otpRequest.code = proc[p].code
               /\ proc'[p].result.kind # "Blocked"
       ]_vars

\* C38 witness: a wrong code was submitted while the requester held an active
\* record, which still has attempts = 0, and the call got plain InvalidOrExpired
C38_Witness ==
  \E p \in AllProcs :
    /\ Verified(p) /\ proc[p].code = WrongCode
    /\ proc[p].result = Outcome("InvalidOrExpired")
    /\ proc[p].guesses.count >= 2
    /\ \E r \in ActiveOtps(proc[p].email, now) :
         r.id = proc[p].guesses.target /\ r.attempts = 0

\* C39: the expires_at that a successful verifyOtp returns is the expiry of the
\* token issued in the same call, issue time plus the configured JWT_EXPIRES_IN,
\* for every configured lifetime.
C39_ExpiresAtIsTokenExpiry ==
  \A p \in AllProcs :
    (Verified(p) /\ proc[p].result.kind = "Success")
      => /\ proc[p].result.expires_at # Nil
         /\ proc[p].result.expires_at = proc[p].result.token_exp

====
